---------------------------- MODULE Spec2Model ----------------------------
(* A model of ftx.py: the response envelope (_process_response), the      *)
(* backward trade-history pagination (get_all_trades) with the endpoint   *)
(* it queries, the argument checks of modify_order, and the two ladder    *)
(* loops (run_sell, run_buy) with the exchange they talk to.              *)
(*                                                                        *)
(* Prices are counted in quarters of the quote currency's unit (12 is the  *)
(* price 3.0) and both rates are one half, so that every price the loops  *)
(* compute is a whole number of quarters: on such values the program's    *)
(* float arithmetic is exact, and the integers here compute what it does. *)
EXTENDS Integers, Sequences, FiniteSets, Bags, TLC

VARIABLES
    \* _process_response
    r_pc,         \* "call" before the call, "done" after it
    http,         \* the Response handed to _process_response
    outcome,      \* what the call did: a returned value or a raised error
    \* get_all_trades
    t_pc,         \* "loop" inside the while loop, "done" after the return
    ids,          \* the set of trade ids seen
    results,      \* the accumulated list
    start_time,   \* the caller's start_time
    end_time,     \* the end_time of the next request
    response,     \* the page the last request returned
    requests,     \* the requests sent so far, in order
    pages,        \* the pages received so far, in order
    \* run_sell / run_buy and the exchange
    mode,         \* "sell" for run_sell, "buy" for run_buy, "idle" for neither
    pc,           \* "poll", "place", "hedge" or "crashed": where the loop stands
    branch,       \* "seed" (no counted order) or "add": the branch of the tick
    prices,       \* the local prices: the order book last read
    open_orders,  \* the local open_orders: the open orders last read
    side_orders,  \* the local buy_orders (run_sell) or sell_orders (run_buy)
    current_price,\* the local current_price
    book,         \* the orders open on the exchange, a bag
    calls,        \* the calls of the current tick, in order, with their results
    failed_before,\* during a tick, the number of failed ticks right before it
    lost,         \* whether an answer to a placement has been lost so far
    \* modify_order
    m_pc,         \* "call" before the call, "done" after it
    m_args,       \* the arguments of the call
    m_outcome,    \* what the call did: a request posted or an error raised
    \* the trade-history endpoint
    history       \* the trades of the market that the endpoint serves

t_vars == <<t_pc, ids, results, start_time, end_time, response, requests, pages>>
r_vars == <<r_pc, http, outcome>>
e_vars == <<mode, pc, branch, prices, open_orders, side_orders, current_price,
            book, calls, failed_before, lost>>
m_vars == <<m_pc, m_args, m_outcome>>
h_vars == <<history>>
vars == <<r_vars, t_vars, e_vars, m_vars, h_vars>>

--------------------------------------------------------------------------
(* Helpers *)

SeqToSet(s) == {s[i] : i \in 1..Len(s)}

MinOf(S) == CHOOSE x \in S : \A y \in S : x <= y

MaxOf(S) == CHOOSE x \in S : \A y \in S : x >= y

\* All sequences over S of length 0..n
RECURSIVE SeqsUpTo(_, _)
SeqsUpTo(S, n) ==
    IF n = 0 THEN {<<>>}
    ELSE LET shorter == SeqsUpTo(S, n - 1)
         IN  shorter \cup {Append(s, x) : s \in {q \in shorter : Len(q) = n - 1}, x \in S}

--------------------------------------------------------------------------
(* _process_response *)

\* Payload values of an envelope's result and error fields
Payloads == {"a", "b", "c", "d", "e"}

\* HTTP statuses of a response
Statuses == {200, 404, 500}

\* A Response: its status, whether its body is JSON, and the envelope in it
Responses ==
    [status : Statuses, json : BOOLEAN, success : BOOLEAN,
     result : Payloads, error : Payloads]

\* response.raise_for_status(): raises HTTPError for a 4xx or 5xx status
raise_for_status(resp) ==
    IF resp.status >= 400
    THEN [kind |-> "raise", type |-> "HTTPError", value |-> "status"]
    ELSE [kind |-> "pass", type |-> "", value |-> ""]

\* A mutant of _process_response: the envelope is returned whatever success says
process_response_ignores_success(resp) ==
    IF ~resp.json
    THEN IF raise_for_status(resp).kind = "raise"
         THEN raise_for_status(resp)
         ELSE [kind |-> "raise", type |-> "ValueError", value |-> "json"]
    ELSE [kind |-> "return", type |-> "", value |-> resp.result]

\* FtxClient._process_response
process_response(resp) ==
    IF ~resp.json
    THEN \* except ValueError: raise_for_status(), then re-raise
         IF raise_for_status(resp).kind = "raise"
         THEN raise_for_status(resp)
         ELSE [kind |-> "raise", type |-> "ValueError", value |-> "json"]
    ELSE IF ~resp.success
         THEN [kind |-> "raise", type |-> "Exception", value |-> resp.error]
         ELSE [kind |-> "return", type |-> "", value |-> resp.result]

NoOutcome == [kind |-> "none", type |-> "", value |-> ""]

ResponseInit ==
    /\ r_pc = "call"
    /\ http \in Responses
    /\ outcome = NoOutcome

ResponseIdle ==
    /\ r_pc = "idle"
    /\ http = [status |-> 200, json |-> TRUE, success |-> TRUE,
               result |-> "a", error |-> "a"]
    /\ outcome = NoOutcome

\* One call of _process_response on the response
ProcessResponse ==
    /\ r_pc = "call"
    /\ outcome' = process_response(http)
    /\ r_pc' = "done"
    /\ UNCHANGED http

--------------------------------------------------------------------------
(* get_all_trades *)

\* limit = 100
limit == 100

\* None, for a start_time or end_time that is absent; no trade has time 0
None == 0

\* The number of requests the model follows one call for
MaxRequests == 3

\* The longest page the model draws freely, trade by trade
MaxShortLen == 2

\* Every fifty trade ids share one timestamp
TradesPerTime == 50

\* parse_datetime(t['time']).timestamp() of the trade with this id
TimeOf(id) == (id + TradesPerTime - 1) \div TradesPerTime

Trade(id) == [id |-> id, time |-> TimeOf(id)]

\* The trades the short pages are drawn from
ShortIds == {1, 51, 101}

\* The newest ids of the full pages
FullTops == {100, 130, 230}

\* A page of exactly limit trades, newest first; with dup, its second trade
\* repeats its first
FullPage(top, dup) ==
    [i \in 1..limit |-> IF dup /\ i = 2 THEN Trade(top) ELSE Trade(top - i + 1)]

\* The pages the endpoint may answer with
Pages ==
    SeqsUpTo({Trade(i) : i \in ShortIds}, MaxShortLen)
        \cup {FullPage(top, dup) : top \in FullTops, dup \in BOOLEAN}

\* A mutant of deduped_trades: a trade is dropped when its time was seen
deduped_by_time(page, seen) ==
    SelectSeq(page, LAMBDA r : \A i \in seen : TimeOf(i) # r.time)

\* deduped_trades = [r for r in response if r['id'] not in ids]
deduped_trades(page, seen) == SelectSeq(page, LAMBDA r : r.id \notin seen)

\* A mutant of the new end_time: the minimum over all pages received
min_time_of_all_pages(page) ==
    MinOf({page[i].time : i \in 1..Len(page)}
            \cup UNION {{pages[n][i].time : i \in 1..Len(pages[n])} : n \in 1..Len(pages)})

\* min(parse_datetime(t['time']) for t in response).timestamp()
min_time(page) == MinOf({page[i].time : i \in 1..Len(page)})

\* A mutant of the loop's second break: a page of exactly limit trades stops it
breaks_at_limit(page) == Len(page) = 0 \/ Len(page) <= limit

\* The loop's two breaks: an empty page, or a page shorter than limit
breaks(page) == Len(page) = 0 \/ Len(page) < limit

TradesInit ==
    /\ t_pc = "loop"
    /\ ids = {}
    /\ results = <<>>
    /\ start_time \in {None, 1}
    /\ end_time \in {None, 3}
    /\ response = <<>>
    /\ requests = <<>>
    /\ pages = <<>>

TradesIdle ==
    /\ t_pc = "idle"
    /\ ids = {}
    /\ results = <<>>
    /\ start_time = None
    /\ end_time = None
    /\ response = <<>>
    /\ requests = <<>>
    /\ pages = <<>>

\* The body of the while loop after the request, the endpoint having
\* answered with page
Iteration(page) ==
    /\ response' = page
    /\ results' = results \o deduped_trades(page, ids)
    /\ ids' = ids \cup {r.id : r \in SeqToSet(deduped_trades(page, ids))}
    /\ end_time' = IF Len(page) = 0 THEN end_time ELSE min_time(page)
    /\ t_pc' = IF breaks(page) THEN "done" ELSE "loop"
    /\ UNCHANGED start_time

\* One iteration of the while loop, the endpoint answering with page
Fetch(page) ==
    /\ t_pc = "loop"
    /\ Len(requests) < MaxRequests
    /\ requests' = Append(requests, [end_time |-> end_time, start_time |-> start_time])
    /\ pages' = Append(pages, page)
    /\ Iteration(page)

--------------------------------------------------------------------------
(* The trade-history endpoint: it returns, newest first, the at most limit *)
(* most recent trades whose time is at or after start_time and at or      *)
(* before end_time, both boundaries included.                             *)

\* The most trades a market's history holds
MaxHistory == 250

\* A history: count trades with ids 1..count, oldest first, every block of
\* them sharing one timestamp
Histories ==
    [count : {0, 1, limit - 1, limit, limit + 1, 2 * limit, MaxHistory},
     block : {1, TradesPerTime, limit}]

NoHistory == [count |-> 0, block |-> 1]

\* The time of the trade with this id in history h
HistoryTime(h, id) == (id + h.block - 1) \div h.block

\* The newest trade of h at or before et; times do not decrease with ids
Newest(h, et) ==
    IF et = None \/ et * h.block > h.count THEN h.count ELSE et * h.block

\* The oldest trade of h at or after st
Oldest(h, st) == IF st = None THEN 1 ELSE (st - 1) * h.block + 1

\* The n trades from the one with id newest downwards, newest first
PageFrom(h, newest, n) ==
    [k \in 1..n |-> [id |-> newest - k + 1, time |-> HistoryTime(h, newest - k + 1)]]

\* The page the endpoint returns for a request
Endpoint(h, st, et) ==
    LET inWindow == Newest(h, et) - Oldest(h, st) + 1
    IN  PageFrom(h, Newest(h, et),
                 IF inWindow < 0 THEN 0 ELSE IF inWindow < limit THEN inWindow ELSE limit)

HistoryInit == history \in Histories

HistoryIdle == history = NoHistory

\* One iteration of the while loop against the endpoint; the record of the
\* requests starts again after MaxRequests of them, the pages are not recorded
FetchHistory ==
    /\ t_pc = "loop"
    /\ requests' =
          IF Len(requests) < MaxRequests
          THEN Append(requests, [end_time |-> end_time, start_time |-> start_time])
          ELSE <<[end_time |-> end_time, start_time |-> start_time]>>
    /\ Iteration(Endpoint(history, start_time, end_time))
    /\ UNCHANGED <<pages, history>>

--------------------------------------------------------------------------
(* modify_order *)

\* The values an argument of modify_order may have when it is supplied
ArgValues == {1, 2}

\* The arguments of a call; None is the default of each
ModifyArgs ==
    [existing_order_id : {None} \cup ArgValues,
     existing_client_order_id : {None} \cup ArgValues,
     price : {None} \cup ArgValues,
     size : {None} \cup ArgValues,
     client_order_id : {None, 1}]

\* The keys of the posted body: each argument that is not None
body_keys(args) ==
    {k \in {"size", "price", "clientId"} :
        CASE k = "size" -> args.size # None
          [] k = "price" -> args.price # None
          [] OTHER -> args.client_order_id # None}

\* The body modify_order posts
body(args) ==
    [k \in body_keys(args) |->
        CASE k = "size" -> args.size
          [] k = "price" -> args.price
          [] OTHER -> args.client_order_id]

\* The path modify_order posts to
path(args) ==
    IF args.existing_order_id # None
    THEN <<"orders", args.existing_order_id, "modify">>
    ELSE <<"orders/by_client_id", args.existing_client_order_id, "modify">>

NoRequest == [path |-> <<>>, body |-> <<>>]

\* FtxClient.modify_order: its two asserts, then the post
modify_order(args) ==
    IF ~((args.existing_order_id = None) # (args.existing_client_order_id = None))
    THEN [kind |-> "raise", type |-> "AssertionError",
          value |-> "Must supply exactly one ID for the order to modify",
          request |-> NoRequest]
    ELSE IF ~((args.price = None) \/ (args.size = None))
    THEN [kind |-> "raise", type |-> "AssertionError",
          value |-> "Must modify price or size of order",
          request |-> NoRequest]
    ELSE [kind |-> "post", type |-> "", value |-> "",
          request |-> [path |-> path(args), body |-> body(args)]]

NoModify == [kind |-> "none", type |-> "", value |-> "", request |-> NoRequest]

ModifyInit ==
    /\ m_pc = "call"
    /\ m_args \in ModifyArgs
    /\ m_outcome = NoModify

ModifyIdle ==
    /\ m_pc = "idle"
    /\ m_args = [existing_order_id |-> None, existing_client_order_id |-> None,
                 price |-> None, size |-> None, client_order_id |-> None]
    /\ m_outcome = NoModify

\* One call of modify_order with the arguments
ModifyOrder ==
    /\ m_pc = "call"
    /\ m_outcome' = modify_order(m_args)
    /\ m_pc' = "done"
    /\ UNCHANGED m_args

--------------------------------------------------------------------------
(* The exchange, as run_sell and run_buy see it *)

\* coin = sys.argv[3]: the market of every call
coin == "coin"

\* number = float(sys.argv[4]): the size of every order
number == 1

\* rate = float(sys.argv[5]), the step between a rung and its hedge
rate == [num |-> 1, den |-> 2]

\* uprate = float(sys.argv[6]), the move that triggers a new rung
uprate == [num |-> 1, den |-> 2]

\* The most orders the exchange holds open on one side
MaxOpenPerSide == 6

\* The hedge attempts of one tick that calls records one by one
MaxTries == 2

\* The failed ticks in a row that failed_before counts
MaxFails == 3

Sides == {"buy", "sell"}

Opposite(side) == IF side = "buy" THEN "sell" ELSE "buy"

\* The best price the order book may show (3.0)
BookPrices == {12}

\* The result of get_prices: depth 1, so one level or none on each side
OrderBook(levels) == [bids |-> levels, asks |-> levels]

OrderBooks == {OrderBook(<<>>)} \cup {OrderBook(<<<<p, number>>>>) : p \in BookPrices}

Order(side, price) == [side |-> side, price |-> price, size |-> number]

\* The number of orders of a side in a bag of orders
CountOfSide(orders, side) ==
    BagCardinality([o \in {x \in BagToSet(orders) : x.side = side} |-> orders[o]])

\* The prices of an order that may be open on the counted side when a loop
\* starts: in run_sell a buy at 2.0 or 4.0, in run_buy a sell at 6.0 or 8.0
AnchorPrices(m) == IF m = "sell" THEN {8, 16} ELSE {24, 32}

\* The open orders an account may hold when a loop starts: none, or one order
\* of the side the loop counts
InitBooks(m) ==
    {EmptyBag} \cup {SetToBag({[side |-> IF m = "sell" THEN "buy" ELSE "sell",
                                price |-> p, size |-> number]}) : p \in AnchorPrices(m)}

\* x * (1 + r)
TimesOnePlus(x, r) == (x * (r.den + r.num)) \div r.den

\* x * (1 - r)
TimesOneMinus(x, r) == (x * (r.den - r.num)) \div r.den

--------------------------------------------------------------------------
(* run_sell and run_buy *)

\* The cap of the ladder: len(buy_orders) >= 5, len(sell_orders) >= 5
max_orders == 5

\* min_order_price = 999999, in quarters
min_order_price_init == 4 * 999999

\* The side of the orders a loop places first: sell in run_sell
RungSide(m) == m

\* A mutant of the counted side: the loop counts the orders of its rungs' side
counts_rung_side(m) == m

\* The side a loop counts and takes its anchor from: buy_orders in run_sell,
\* sell_orders in run_buy
CountedSide(m) == Opposite(m)

\* The side of the order book a loop reads: bids in run_sell, asks in run_buy
Levels(m, ob) == IF m = "sell" THEN ob.bids ELSE ob.asks

\* A mutant of get_max_order_price: the start value 0.0 is returned
max_price_is_start(orders, side) == 0

\* get_max_order_price(orders, side)
get_max_order_price(orders, side) ==
    MaxOf({0} \cup {o.price : o \in {x \in BagToSet(orders) : x.side = side}})

\* get_min_order_price(orders, side)
get_min_order_price(orders, side) ==
    MinOf({min_order_price_init}
            \cup {o.price : o \in {x \in BagToSet(orders) : x.side = side}})

\* get_orders_of_side(orders, side)
get_orders_of_side(orders, side) ==
    [o \in {x \in BagToSet(orders) : x.side = side} |-> orders[o]]

\* sign_price: the anchor moved by uprate
sign_price(m, orders) ==
    IF m = "sell"
    THEN TimesOnePlus(get_max_order_price(orders, "buy"), uprate)
    ELSE TimesOneMinus(get_min_order_price(orders, "sell"), uprate)

\* A mutant of the cap: no ladder is full
ladder_never_full(n) == FALSE

\* A mutant of the cap: a ladder of exactly 5 is not full
ladder_full_above(n) == n > max_orders

\* if(len(buy_orders) >= 5): continue
ladder_full(n) == n >= max_orders

\* A mutant of the trigger: the price at the threshold triggers too
triggers_at_threshold(m, price, sign) ==
    IF m = "sell" THEN price >= sign ELSE price <= sign

\* if(current_price > sign_price) in run_sell, < in run_buy
triggers(m, price, sign) ==
    IF m = "sell" THEN price > sign ELSE price < sign

\* A mutant of the reads' try block: a failed open-orders read is passed over
proceeds_without_orders(prices_ok, orders_ok) == prices_ok

\* try: get_prices, get_open_orders, get_orders_of_side; except: continue
proceeds(prices_ok, orders_ok) == prices_ok /\ orders_ok

\* A mutant of the hedge loop: a failed attempt leaves the loop
after_hedge_gives_up(ok) == "poll"

\* A mutant of the hedge loop: the break is missing
after_hedge_never_leaves(ok) == "hedge"

\* The hedge loop: break after a success, sleep and try again after a failure
after_hedge(ok) == IF ok THEN "poll" ELSE "hedge"

\* A mutant of the rung's except: a failed rung goes on to the hedge loop
after_place_goes_on(ok) == "hedge"

\* The rung's try: on to the hedge loop after a success, continue after a failure
after_place(ok) == IF ok THEN "hedge" ELSE "poll"

\* A mutant of the hedge's price: the rung's price
hedge_at_rung_price(m, price) == price

\* The hedge of a rung at price: rate below it in run_sell, above in run_buy
hedge_price(m, price) ==
    IF m = "sell" THEN TimesOneMinus(price, rate) ELSE TimesOnePlus(price, rate)

\* The price of the rung of this tick: prices['bids'][0][0] in the first
\* branch, current_price in the second
RungPrice == IF branch = "seed" THEN Levels(mode, prices)[1][1] ELSE current_price

\* The outcomes of a place_order call: the exchange takes the order and says
\* so, refuses it, or takes it while the call fails (the answer is lost)
PlaceOutcomes == {"ok", "rejected", "lost"}

\* Whether the exchange can give this answer to a placement on side
CanAnswer(answer, side) ==
    CASE answer = "ok" -> CountOfSide(book, side) < MaxOpenPerSide
      [] answer = "lost" -> CountOfSide(book, side) < MaxOpenPerSide - 1
      [] OTHER -> TRUE

PlaceCall(side, price, answer) ==
    [op |-> "place_order", ok |-> answer = "ok", accepted |-> answer # "rejected",
     market |-> coin, side |-> side, price |-> price, size |-> number]

\* The exchange's book after a placement
Placed(side, price, answer) ==
    IF answer = "rejected" THEN book ELSE book (+) SetToBag({Order(side, price)})

\* Whether the last tick's reads failed
LastTickFailed ==
    \E i \in 1..Len(calls) : calls[i].op # "place_order" /\ ~calls[i].ok

FailedBefore ==
    IF LastTickFailed
    THEN (IF failed_before < MaxFails THEN failed_before + 1 ELSE MaxFails)
    ELSE 0

EngineInit ==
    /\ mode \in {"sell", "buy"}
    /\ pc = "poll"
    /\ branch = "seed"
    /\ prices = OrderBook(<<>>)
    /\ open_orders = EmptyBag
    /\ side_orders = EmptyBag
    /\ current_price = 0
    /\ book \in InitBooks(mode)
    /\ calls = <<>>
    /\ failed_before = 0
    /\ lost = FALSE

EngineIdle ==
    /\ mode = "idle"
    /\ pc = "idle"
    /\ branch = "seed"
    /\ prices = OrderBook(<<>>)
    /\ open_orders = EmptyBag
    /\ side_orders = EmptyBag
    /\ current_price = 0
    /\ book = EmptyBag
    /\ calls = <<>>
    /\ failed_before = 0
    /\ lost = FALSE

\* A tick whose get_prices call fails: continue
PollPricesFail ==
    /\ pc = "poll"
    /\ calls' = <<[op |-> "get_prices", ok |-> FALSE]>>
    /\ failed_before' = FailedBefore
    /\ UNCHANGED <<r_vars, t_vars, m_vars, h_vars, lost, mode, pc, branch, prices, open_orders, side_orders,
                   current_price, book>>

\* A tick from its sleep to its first placement: both reads, then the branch
\* on the number of counted orders, the cap and the trigger
Poll(ob, orders_ok) ==
    /\ pc = "poll"
    /\ prices' = ob
    /\ calls' = <<[op |-> "get_prices", ok |-> TRUE, result |-> ob],
                  [op |-> "get_open_orders", ok |-> orders_ok,
                   result |-> IF orders_ok THEN book ELSE EmptyBag]>>
    /\ open_orders' = IF orders_ok THEN book ELSE open_orders
    /\ UNCHANGED <<r_vars, t_vars, m_vars, h_vars, lost, mode, book>>
    /\ IF ~proceeds(TRUE, orders_ok)
       THEN UNCHANGED <<pc, branch, side_orders, current_price>>
       ELSE /\ side_orders' = get_orders_of_side(open_orders', CountedSide(mode))
            /\ IF BagCardinality(side_orders') = 0
               THEN pc' = "place" /\ branch' = "seed" /\ UNCHANGED current_price
               ELSE IF ladder_full(BagCardinality(side_orders'))
               THEN UNCHANGED <<pc, branch, current_price>>
               ELSE IF Levels(mode, ob) = <<>>
               THEN \* prices['bids'][0][0] raises IndexError outside any try
                    pc' = "crashed" /\ branch' = "add" /\ UNCHANGED current_price
               ELSE /\ current_price' = Levels(mode, ob)[1][1]
                    /\ branch' = "add"
                    /\ pc' = IF triggers(mode, current_price', sign_price(mode, open_orders'))
                             THEN "place" ELSE "poll"
    /\ failed_before' = IF orders_ok /\ pc' = "poll" THEN 0 ELSE FailedBefore

\* The first place_order of a tick raises before any request: the order book
\* side is empty (IndexError), or the call is fc.palce_order in run_buy
\* (AttributeError); except: continue
PlaceRaises ==
    /\ pc = "place"
    /\ branch = "seed"
    /\ mode = "buy" \/ Levels(mode, prices) = <<>>
    /\ pc' = "poll"
    /\ failed_before' = 0
    /\ UNCHANGED <<r_vars, t_vars, m_vars, h_vars, lost, mode, branch, prices, open_orders, side_orders, current_price,
                   book, calls>>

\* The first place_order of a tick: the rung
Place(answer) ==
    /\ pc = "place"
    /\ ~(branch = "seed" /\ (mode = "buy" \/ Levels(mode, prices) = <<>>))
    /\ CanAnswer(answer, RungSide(mode))
    /\ book' = Placed(RungSide(mode), RungPrice, answer)
    /\ calls' = Append(calls, PlaceCall(RungSide(mode), RungPrice, answer))
    /\ pc' = after_place(answer = "ok")
    /\ failed_before' = IF answer = "ok" THEN failed_before ELSE 0
    /\ lost' = (lost \/ answer = "lost")
    /\ UNCHANGED <<r_vars, t_vars, m_vars, h_vars, mode, branch, prices, open_orders, side_orders, current_price>>

\* calls with one more hedge attempt; past MaxTries the last one is replaced
WithAttempt(call) ==
    IF Len(calls) < 3 + MaxTries
    THEN Append(calls, call)
    ELSE [calls EXCEPT ![Len(calls)] = call]

\* One attempt of the hedge loop
Hedge(answer) ==
    /\ pc = "hedge"
    /\ CanAnswer(answer, Opposite(RungSide(mode)))
    /\ book' = Placed(Opposite(RungSide(mode)), hedge_price(mode, RungPrice), answer)
    /\ calls' = WithAttempt(PlaceCall(Opposite(RungSide(mode)),
                                      hedge_price(mode, RungPrice), answer))
    /\ pc' = after_hedge(answer = "ok")
    /\ failed_before' = IF pc' = "poll" THEN 0 ELSE failed_before
    /\ lost' = (lost \/ answer = "lost")
    /\ UNCHANGED <<r_vars, t_vars, m_vars, h_vars, mode, branch, prices, open_orders, side_orders, current_price>>

\* An open order is filled, or cancelled from outside
Fill(order) ==
    /\ mode # "idle"
    /\ BagIn(order, book)
    /\ book' = book (-) SetToBag({order})
    /\ UNCHANGED <<r_vars, t_vars, m_vars, h_vars, lost, mode, pc, branch, prices, open_orders, side_orders,
                   current_price, calls, failed_before>>

--------------------------------------------------------------------------
(* Specifications *)

InitResponse == ResponseInit /\ TradesIdle /\ EngineIdle /\ ModifyIdle /\ HistoryIdle

NextResponse == ProcessResponse /\ UNCHANGED <<t_vars, e_vars, m_vars, h_vars>>

SpecResponse == InitResponse /\ [][NextResponse]_vars

InitTrades == TradesInit /\ ResponseIdle /\ EngineIdle /\ ModifyIdle /\ HistoryIdle

NextTrades == (\E page \in Pages : Fetch(page)) /\ UNCHANGED <<r_vars, e_vars, m_vars, h_vars>>

SpecTrades == InitTrades /\ [][NextTrades]_vars

InitModify == ModifyInit /\ ResponseIdle /\ TradesIdle /\ EngineIdle /\ HistoryIdle

NextModify == ModifyOrder /\ UNCHANGED <<r_vars, t_vars, e_vars, h_vars>>

SpecModify == InitModify /\ [][NextModify]_vars

InitHistory == TradesInit /\ HistoryInit /\ ResponseIdle /\ EngineIdle /\ ModifyIdle

NextHistory == FetchHistory /\ UNCHANGED <<r_vars, e_vars, m_vars>>

\* The loop of get_all_trades runs on by itself
SpecHistory == InitHistory /\ [][NextHistory]_vars /\ WF_vars(NextHistory)

Init == EngineInit /\ ResponseIdle /\ TradesIdle /\ ModifyIdle /\ HistoryIdle

Next ==
    \/ PollPricesFail
    \/ \E ob \in OrderBooks, orders_ok \in BOOLEAN : Poll(ob, orders_ok)
    \/ PlaceRaises
    \/ \E answer \in PlaceOutcomes : Place(answer)
    \/ \E answer \in PlaceOutcomes : Hedge(answer)
    \/ \E order \in BagToSet(book) : Fill(order)

Spec == Init /\ [][Next]_vars

\* A hedge attempt that the exchange can accept is accepted in the end
SpecFair == Spec /\ WF_vars(Hedge("ok"))

--------------------------------------------------------------------------
(* Properties of get_all_trades *)

\* The ids of a list of trades
IdsOf(trades) == {trades[i].id : i \in 1..Len(trades)}

\* No trade id occurs twice in a list of trades
DistinctIds(trades) ==
    \A i, j \in 1..Len(trades) : i # j => trades[i].id # trades[j].id

\* The ids of all pages received
FetchedIds == UNION {IdsOf(pages[n]) : n \in 1..Len(pages)}

\* C4: whatever pages the endpoint returns, pages that hold one trade id twice
\* included, the list get_all_trades returns holds each trade id at most once.
C4_ResultHasNoRepeatedId == t_pc = "done" => DistinctIds(results)

\* C5: when no page holds a trade id twice (pages may repeat trades of earlier
\* pages), the returned list holds every trade id of every fetched page, and
\* its length is the number of distinct ids over all fetched pages.
C5_Complete ==
    (t_pc = "done" /\ \A n \in 1..Len(pages) : DistinctIds(pages[n]))
        => /\ IdsOf(results) = FetchedIds
           /\ Len(results) = Cardinality(FetchedIds)

\* A call that ended after two pages or more, the second starting with the
\* last k trades of the first
C5_Witness ==
    /\ t_pc = "done"
    /\ Len(pages) >= 2
    /\ \A n \in 1..Len(pages) : DistinctIds(pages[n])
    /\ \E k \in 1..limit :
          /\ Len(pages[1]) >= k /\ Len(pages[2]) >= k
          /\ SubSeq(pages[1], Len(pages[1]) - k + 1, Len(pages[1])) = SubSeq(pages[2], 1, k)
    /\ Len(results) = Cardinality(FetchedIds)
    /\ Len(results) > limit

\* C6: the call ends exactly after a page of fewer than limit trades (an
\* empty one included) and goes on to another request after a page of limit
\* trades; the trades of the last page are in the result.
C6_StopConditions ==
    requests # <<>> =>
        /\ t_pc = "done" <=> Len(response) < limit
        /\ t_pc = "loop" <=> Len(response) >= limit
        /\ t_pc = "done" => ~ENABLED NextTrades
        /\ (t_pc = "loop" /\ Len(requests) < MaxRequests) => ENABLED NextTrades
        /\ IdsOf(response) \subseteq IdsOf(results)
        /\ Len(requests) = Len(pages)

\* A call that ended on a short page that is not empty, after a full page
C6_Witness ==
    /\ t_pc = "done"
    /\ Len(pages) = 2
    /\ Len(pages[1]) = limit
    /\ Len(response) \in 1..(limit - 1)
    /\ IdsOf(response) \subseteq IdsOf(results)

--------------------------------------------------------------------------
(* Properties of _process_response *)

\* C9: for a response whose body is an envelope, _process_response returns
\* the result unchanged when success is true, and raises an error carrying
\* exactly the envelope's error when success is false.
C9_Envelope ==
    (r_pc = "done" /\ http.json) =>
        /\ http.success =>
              outcome = [kind |-> "return", type |-> "", value |-> http.result]
        /\ ~http.success =>
              /\ outcome.kind = "raise"
              /\ outcome.value = http.error

\* A failed envelope whose error differs from its result has been processed
C9_Witness ==
    /\ r_pc = "done"
    /\ http.json /\ ~http.success
    /\ http.error # http.result
    /\ outcome.kind = "raise" /\ outcome.value = http.error

--------------------------------------------------------------------------
(* Properties of run_sell and run_buy *)

\* The calls of the current tick that are placements
IsPlace(i) == calls[i].op = "place_order"

\* The i-th call of the tick placed a rung, and the exchange said so
RungPlaced(i) == IsPlace(i) /\ calls[i].side = mode /\ calls[i].ok

\* The i-th call of the tick placed a hedge, and the exchange said so
HedgePlaced(i) == IsPlace(i) /\ calls[i].side # mode /\ calls[i].ok

\* Both reads of the current tick succeeded
ReadsSucceeded ==
    /\ Len(calls) >= 2
    /\ calls[1].op = "get_prices" /\ calls[1].ok
    /\ calls[2].op = "get_open_orders" /\ calls[2].ok

\* The number of open orders of a side in the tick's snapshot
Snapshot(side) == CountOfSide(calls[2].result, side)

\* The prices of the orders of a side in the tick's snapshot
SnapshotPrices(side) ==
    {o.price : o \in {x \in BagToSet(calls[2].result) : x.side = side}}

\* The best price of the tick: the best bid in run_sell, the best ask in run_buy
TickLevels == IF mode = "sell" THEN calls[1].result.bids ELSE calls[1].result.asks

\* C1 as stated: the number of open orders of the side the loop places its
\* rungs on (sell in run_sell, buy in run_buy) never exceeds 5; here for the
\* runs in which every answer of the exchange arrived.
C1_RungsNeverExceedCap ==
    (mode # "idle" /\ ~lost) => CountOfSide(book, mode) <= max_orders

\* C1 as amended: a loop places a rung only on a tick whose open-orders
\* snapshot shows fewer than 5 orders of the side it counts (buy in run_sell,
\* sell in run_buy), and it places at most one rung a tick, as the third call.
C1_RungOnlyBelowCap ==
    \A i \in 1..Len(calls) :
        (IsPlace(i) /\ calls[i].side = mode) =>
            /\ i = 3
            /\ calls[2].op = "get_open_orders" /\ calls[2].ok
            /\ Snapshot(Opposite(mode)) < max_orders

\* run_sell has placed a rung on a snapshot of four buy orders, one below the cap
C1_Witness ==
    /\ mode = "sell"
    /\ ReadsSucceeded
    /\ Snapshot("buy") = max_orders - 1
    /\ Len(calls) >= 3 /\ RungPlaced(3)
    /\ CountOfSide(book, "buy") = max_orders - 1
    /\ pc = "hedge"

\* The hedge of the tick's rung is placed
HedgeDone == pc = "poll" /\ Len(calls) >= 4 /\ HedgePlaced(Len(calls))

\* C2: every successful rung placement is eventually followed by a successful
\* hedge placement, when placements do not fail forever.
C2_HedgeFollows == (pc = "hedge") ~> HedgeDone

\* A hedge placed after a failed attempt
C2_Witness ==
    /\ HedgeDone
    /\ Len(calls) >= 5
    /\ RungPlaced(3)
    /\ ~calls[4].ok

\* C3: after a successful rung placement, every call until the hedge is placed
\* is a hedge attempt, on the other side, with the rung's size, at the rung's
\* price times 1 - rate (run_sell) or 1 + rate (run_buy); the loop stays in
\* the hedge loop until an attempt succeeds and leaves it then.
C3_OnlyHedgeAttempts ==
    /\ \A i \in 1..Len(calls) :
          RungPlaced(i) =>
              \A j \in (i + 1)..Len(calls) :
                  /\ IsPlace(j)
                  /\ calls[j].side = Opposite(mode)
                  /\ calls[j].size = calls[i].size
                  /\ calls[j].price * rate.den =
                        calls[i].price * (IF mode = "sell" THEN rate.den - rate.num
                                                           ELSE rate.den + rate.num)
                  /\ j < Len(calls) => ~calls[j].ok
    /\ pc = "hedge" <=> /\ \E i \in 1..Len(calls) : RungPlaced(i)
                        /\ ~HedgePlaced(Len(calls))
    /\ pc = "hedge" => prices = calls[1].result

\* A hedge loop that failed once and is still running
C3_Witness ==
    /\ pc = "hedge"
    /\ Len(calls) >= 4
    /\ RungPlaced(3)
    /\ IsPlace(4) /\ ~calls[4].ok /\ calls[4].side = Opposite(mode)

\* The decision of the tick to place a rung: taken, or carried out
Triggered == pc = "place" \/ (Len(calls) >= 3 /\ IsPlace(3) /\ calls[3].side = mode)

\* C7 as stated, for run_sell: on a tick with at least one and fewer than 5
\* open sell orders (the rungs), a rung is placed exactly when the best bid is
\* strictly above the highest open buy price (0 when there is none) times
\* 1 + uprate; here for the runs in which every answer of the exchange arrived.
C7_ThresholdOnRungCount ==
    (/\ mode = "sell" /\ ~lost /\ ReadsSucceeded /\ TickLevels # <<>>
     /\ Snapshot("sell") >= 1 /\ Snapshot("sell") < max_orders)
        => (Triggered <=>
              TickLevels[1][1] * uprate.den >
                  MaxOf({0} \cup SnapshotPrices("buy")) * (uprate.den + uprate.num))

\* C7 as amended: on a tick whose reads succeed and show a best price, with at
\* least one and fewer than 5 open orders of the counted side (buy in
\* run_sell, sell in run_buy), the loop goes on to place a rung exactly when
\* the best price is strictly above the highest open buy price times
\* 1 + uprate (run_sell), strictly below the lowest open sell price times
\* 1 - uprate (run_buy); the rung is placed at the best price.
C7_Threshold ==
    (/\ mode # "idle" /\ ReadsSucceeded /\ TickLevels # <<>>
     /\ Snapshot(Opposite(mode)) >= 1 /\ Snapshot(Opposite(mode)) < max_orders)
        => /\ Triggered <=>
                IF mode = "sell"
                THEN TickLevels[1][1] * uprate.den >
                       MaxOf(SnapshotPrices("buy")) * (uprate.den + uprate.num)
                ELSE TickLevels[1][1] * uprate.den <
                       MinOf(SnapshotPrices("sell")) * (uprate.den - uprate.num)
           /\ Len(calls) >= 3 => calls[3].price = TickLevels[1][1]

\* run_sell has placed a rung at the best bid, above the threshold of the
\* one buy order open
C7_Witness ==
    /\ mode = "sell"
    /\ ReadsSucceeded /\ TickLevels # <<>>
    /\ Snapshot("buy") = 1
    /\ Len(calls) >= 3 /\ RungPlaced(3)
    /\ calls[3].price = TickLevels[1][1]
    /\ TickLevels[1][1] * uprate.den >
          MaxOf(SnapshotPrices("buy")) * (uprate.den + uprate.num)

\* C8: a tick with a failed read places nothing and ends back at the poll;
\* in a tick that goes on to place, whatever the number of failed ticks
\* before it, both reads succeeded, the locals hold what these reads returned,
\* and the branch and the rung's price are those of these values.
C8_FailedTicksLeaveNoTrace ==
    /\ (\E i \in 1..Len(calls) : ~IsPlace(i) /\ ~calls[i].ok)
           => pc = "poll" /\ Len(calls) <= 2
    /\ (pc \in {"place", "hedge"} \/ Len(calls) >= 3) =>
           /\ ReadsSucceeded
           /\ prices = calls[1].result
           /\ open_orders = calls[2].result
           /\ side_orders = get_orders_of_side(calls[2].result, Opposite(mode))
           /\ branch = IF Snapshot(Opposite(mode)) = 0 THEN "seed" ELSE "add"
           /\ Len(calls) >= 3 => calls[3].price = TickLevels[1][1]

\* A rung placed on the first good tick after three failed ticks
C8_Witness ==
    /\ failed_before >= 3
    /\ pc = "hedge"
    /\ ReadsSucceeded
    /\ Len(calls) = 3 /\ RungPlaced(3)

\* C10: run_sell and run_buy never leave their loop through an uncaught error.
C10_NeverCrashes == pc # "crashed"

\* Every placement of the current tick was accepted, and the exchange said so
AllAccepted == \A i \in 1..Len(calls) : IsPlace(i) => calls[i].ok

\* C11: run_buy mirrors run_sell. On a tick that has ended, whose reads
\* succeeded and showed a best price and no open order, and in which the
\* exchange refused no placement, the loop has placed one rung at the best
\* price (a sell at the best bid in run_sell, a buy at the best ask in
\* run_buy) and then one hedge on the other side at that price times 1 - rate
\* (run_sell) or 1 + rate (run_buy).
C11_BuyMirrorsSell ==
    (/\ mode # "idle" /\ pc = "poll" /\ ReadsSucceeded /\ TickLevels # <<>>
     /\ calls[2].result = EmptyBag /\ AllAccepted)
        => /\ Len(calls) = 4
           /\ IsPlace(3) /\ calls[3].side = mode
           /\ calls[3].price = TickLevels[1][1]
           /\ IsPlace(4) /\ calls[4].side = Opposite(mode)
           /\ calls[4].price * rate.den =
                 TickLevels[1][1] * (IF mode = "sell" THEN rate.den - rate.num
                                                      ELSE rate.den + rate.num)

\* The tick took the first branch (the seed) and went on to its placement
SeedEntered == branch = "seed" /\ (pc = "place" \/ Len(calls) >= 3)

\* C12 as stated, for run_sell: on a tick whose reads succeed and show a best
\* bid, the loop seeds exactly when no sell order is open; here for the runs
\* in which every answer of the exchange arrived.
C12_SeedOnRungCount ==
    (mode = "sell" /\ ~lost /\ ReadsSucceeded /\ TickLevels # <<>>)
        => (SeedEntered <=> Snapshot("sell") = 0)

\* C12 as amended, for run_sell: on a tick whose reads succeed and show a best
\* bid, the loop seeds exactly when no buy order (the side it counts) is open,
\* whatever sell orders are open; the seed is a sell at the best bid.
C12_SeedOnCountedSide ==
    (mode = "sell" /\ ReadsSucceeded /\ TickLevels # <<>>)
        => /\ SeedEntered <=> Snapshot("buy") = 0
           /\ (SeedEntered /\ Len(calls) >= 3) =>
                 /\ IsPlace(3) /\ calls[3].side = "sell"
                 /\ calls[3].price = TickLevels[1][1]

\* run_sell has seeded with a sell order open and no buy order open
C12_Witness ==
    /\ mode = "sell"
    /\ ReadsSucceeded /\ TickLevels # <<>>
    /\ Snapshot("sell") >= 1 /\ Snapshot("buy") = 0
    /\ branch = "seed" /\ Len(calls) = 3 /\ RungPlaced(3)

--------------------------------------------------------------------------
(* Properties of modify_order *)

\* Exactly one of the two values is supplied
ExactlyOne(a, b) == (a = None) # (b = None)

\* C13: modify_order posts a request only when exactly one of
\* existing_order_id and existing_client_order_id is supplied and exactly one
\* of price and size is supplied; for every other combination it raises
\* before any request is sent.
C13_ModifyValidation ==
    m_pc = "done" =>
        LET valid == /\ ExactlyOne(m_args.existing_order_id,
                                   m_args.existing_client_order_id)
                     /\ ExactlyOne(m_args.price, m_args.size)
        IN  /\ m_outcome.kind = "post" <=> valid
            /\ ~valid => m_outcome.kind = "raise" /\ m_outcome.request = NoRequest

--------------------------------------------------------------------------
(* More properties of run_sell and run_buy *)

\* The i-th call of the tick was a rung placement that failed
FailedRung(i) == IsPlace(i) /\ calls[i].side = mode /\ ~calls[i].ok

\* C14: when the rung placement of a tick fails, the tick ends there: it is
\* the tick's last call, no hedge and no second rung follow it, and the next
\* call the loop makes is the price read of the next tick.
C14_FailedRungEndsTick ==
    /\ [](\A i \in 1..Len(calls) :
             FailedRung(i) => i = 3 /\ Len(calls) = 3 /\ pc = "poll")
    /\ [][(\E i \in 1..Len(calls) : FailedRung(i))
             => \/ calls' = calls
                \/ Len(calls') <= 2 /\ calls'[1].op = "get_prices"]_vars
    /\ [][(pc = "place" /\ pc' # "place" /\ ~(Len(calls') >= 3 /\ calls'[3].ok))
             => pc' = "poll" /\ Len(calls') <= 3]_vars

\* A tick that ended on a refused rung
C14_Witness ==
    /\ pc = "poll"
    /\ Len(calls) = 3
    /\ FailedRung(3) /\ ~calls[3].accepted

\* The calls of the tick after its rung: the hedge attempts
HedgeAttempts == {j \in 1..Len(calls) : j > 3 /\ IsPlace(j)}

\* C15: every hedge attempt is on the side opposite to its rung, for the
\* rung's market and size, at the rung's price times 1 - rate (run_sell) or
\* 1 + rate (run_buy), and all attempts of one hedge have one price and size.
C15_HedgeParameters ==
    (Len(calls) >= 3 /\ RungPlaced(3)) =>
        /\ \A j \in HedgeAttempts :
              /\ calls[j].side = Opposite(calls[3].side)
              /\ calls[j].market = calls[3].market
              /\ calls[j].size = calls[3].size
              /\ mode = "sell" =>
                    calls[j].price * rate.den = calls[3].price * (rate.den - rate.num)
              /\ mode = "buy" =>
                    calls[j].price * rate.den = calls[3].price * (rate.den + rate.num)
        /\ \A j, k \in HedgeAttempts :
              calls[j].price = calls[k].price /\ calls[j].size = calls[k].size

\* run_buy has placed a sell hedge above its buy rung at the second attempt
C15_Witness ==
    /\ mode = "buy"
    /\ pc = "poll"
    /\ Len(calls) = 5 /\ RungPlaced(3)
    /\ ~calls[4].ok /\ HedgePlaced(5)
    /\ calls[5].side = "sell" /\ calls[5].price > calls[3].price
    /\ calls[4].price = calls[5].price

\* The tick placed nothing: its calls are the two reads
NothingPlaced == pc = "poll" /\ Len(calls) = 2

\* C16 as stated: on a tick that sees 5 or more open orders of the rungs'
\* side (sell in run_sell, buy in run_buy), the loop places no order; here for
\* the runs in which every answer of the exchange arrived.
C16_FullRungLadder ==
    (mode # "idle" /\ ~lost /\ ReadsSucceeded /\ Snapshot(mode) >= max_orders)
        => NothingPlaced

\* C16 as amended: on a tick that sees 5 or more open orders of the counted
\* side (buy in run_sell, sell in run_buy), the loop places no order, whatever
\* the price and whatever orders of the rungs' side are open.
C16_FullCountedLadder ==
    (mode # "idle" /\ ReadsSucceeded /\ Snapshot(Opposite(mode)) >= max_orders)
        => NothingPlaced

\* run_sell has passed a tick with five buy orders open and a best bid above
\* the threshold of the highest of them
C16_Witness ==
    /\ mode = "sell"
    /\ ReadsSucceeded /\ TickLevels # <<>>
    /\ Snapshot("buy") = max_orders
    /\ TickLevels[1][1] * uprate.den >
          MaxOf(SnapshotPrices("buy")) * (uprate.den + uprate.num)
    /\ NothingPlaced

AcceptedHedges == {j \in HedgeAttempts : calls[j].accepted}

\* C20: the hedge loop leaves exactly one hedge order on the exchange for its
\* rung, also when the exchange accepted an attempt whose answer did not
\* arrive: of the attempts of one tick the exchange accepts at most one, and
\* exactly one once the loop is left.
C20_OneHedgePerRung ==
    mode # "idle" =>
        /\ Cardinality(AcceptedHedges) <= 1
        /\ HedgeDone => Cardinality(AcceptedHedges) = 1

--------------------------------------------------------------------------
(* More properties of get_all_trades *)

\* The timestamps of a page
TimesOf(page) == {page[i].time : i \in 1..Len(page)}

\* C18: every request of a call carries the caller's start_time; the first
\* request carries the caller's end_time; every later request carries as
\* end_time the least timestamp of the page received just before it, not of
\* all pages received.
C18_Window ==
    /\ [](\A n \in 1..Len(requests) : requests[n].start_time = start_time)
    /\ [][start_time' = start_time]_vars
    /\ [][(requests = <<>> /\ requests' # <<>>)
             => requests' = <<[end_time |-> end_time, start_time |-> start_time]>>]_vars
    /\ [](\A n \in 2..Len(requests) :
             /\ requests[n].end_time \in TimesOf(pages[n - 1])
             /\ \A t \in TimesOf(pages[n - 1]) : requests[n].end_time <= t)

\* A call with a start_time and an end_time whose third request carries the
\* least timestamp of the second page, which is later than the first page's
C18_Witness ==
    /\ Len(requests) = 3
    /\ start_time # None /\ requests[1].end_time # None
    /\ requests[3].end_time > requests[2].end_time
    /\ requests[3].end_time \in TimesOf(pages[2])
    /\ requests[3].start_time = start_time

\* C19: against an endpoint that returns the at most limit most recent trades
\* at or before end_time, get_all_trades returns for every finite history,
\* also when limit trades or more share one timestamp.
C19_Terminates == <>(t_pc = "done")

==========================================================================
